---- MODULE Spec2Model ----
(***************************************************************************)
(* Model of kosticynd_math_bot.py: the test-taking flow of the bot.        *)
(*                                                                         *)
(* The bot is one asyncio event loop.  A handler runs without interruption *)
(* until it awaits real network I/O (message.answer); the awaits on the    *)
(* in-memory FSM storage do not suspend.  The OpenAI and sqlite calls are  *)
(* synchronous: while one is pending the whole loop is occupied            *)
(* (variable running).  Handlers of several updates, also of one user, are *)
(* separate tasks and interleave at the suspension points (variable        *)
(* pending holds the continuations that wait behind a message.answer).     *)
(***************************************************************************)
EXTENDS Integers, Sequences, FiniteSets, TLC

\* ------------------------------------------------------------- bounds ----
MaxQuestions == 3       \* longest question list the test generator returns
MaxTests     == 2       \* rows of table tests
MaxUpdates   == 6

NumFollowups == 5       \* num=5 in openai_generate_followups

Users == {"u1", "u2"}
Titles == {"algebra"}
Texts == {"/take_test", "1", "7", "abc"}

VARIABLES
    topics,     \* table topics: sequence of titles, id = position
    tests,      \* table tests: sequence of rows, id = position
    progress,   \* table progress: sequence of rows
    fsm,        \* MemoryStorage: FSM state per user
    data,       \* MemoryStorage: FSM data per user
    update,     \* the update the dispatcher is about to route
    running,    \* the handler that occupies the event loop in a blocking call
    pending,    \* per user: continuations suspended in message.answer
    reply,      \* per user: last message sent by the bot
    uncaught,   \* the exception that left a handler since the last update
    nextSid,    \* history: number of the next session
    received,   \* history: number of updates received from the users
    accepted    \* history, per user: the answers recorded for the stored
                \* session (n), and whether every request made for it to the
                \* judge, the generator and the database returned (ok)

vars == <<topics, tests, progress, fsm, data, update, running, pending,
          reply, uncaught, nextSid, received, accepted>>

\* ------------------------------------------------------------ values -----
Prompt(i) == IF i % 2 = 1 THEN "p1" ELSE "p2"

\* The question lists openai_generate_test can return: n items {q, a};
\* n = 0 is the empty list of an unparseable or empty response.
GeneratedTest(n) == [i \in 1..n |-> [q |-> Prompt(i), a |-> i]]

EmptyPlan == [p \in {} |-> <<>>]

NoData == [present |-> FALSE, sid |-> 0, topic_id |-> 0, test_id |-> 0,
           questions |-> <<>>, current_index |-> 0, answers |-> <<>>]

NoUpdate == [user |-> "-", text |-> "-"]

NoneAccepted == [n |-> 0, ok |-> TRUE]

Idle == [kind |-> "idle", user |-> "-", sid |-> 0, topic_id |-> 0,
         test_id |-> 0, questions |-> <<>>, idx |-> 0, answers |-> <<>>,
         student_answer |-> "-", pos |-> 0, followups |-> EmptyPlan,
         calls |-> 0, score |-> 0]

Msg(kind) == [kind |-> kind, n |-> 0, q |-> "-", score |-> 0,
              plan |-> EmptyPlan, calls |-> 0]

\* A continuation: what a handler still does after its message.answer
\* returns; sid is the session the handler worked on (finish_test only).
Cont(k, sid) == [k |-> k, sid |-> sid]

Conts ==
    {Cont(k, 0) : k \in {"set_choosing", "set_in_test", "finish_notest"}}
        \cup {Cont("finish_test", s) : s \in 1..MaxUpdates}

NoPending == [c \in Conts |-> 0]

RECURSIVE BagSize(_, _)
BagSize(bag, S) ==
    IF S = {} THEN 0
    ELSE LET c == CHOOSE x \in S : TRUE
         IN  bag[c] + BagSize(bag, S \ {c})

PendingCount(u) == BagSize(pending[u], Conts)

Suspend(u, c) == [pending EXCEPT ![u][c] = @ + 1]

Resumed(u, c) == [pending EXCEPT ![u][c] = @ - 1]

Init ==
    /\ topics = <<>>
    /\ tests = <<>>
    /\ progress = <<>>
    /\ fsm = [u \in Users |-> "none"]
    /\ data = [u \in Users |-> NoData]
    /\ update = NoUpdate
    /\ running = Idle
    /\ pending = [u \in Users |-> NoPending]
    /\ reply = [u \in Users |-> Msg("nothing")]
    /\ uncaught = "none"
    /\ nextSid = 1
    /\ received = 0
    /\ accepted = [u \in Users |-> NoneAccepted]

\* ------------------------------------------------- text conversions ------
\* str.isdigit() and int() on the texts of the model
IsDigit(text) == text \in {"1", "7"}

ToInt(text) == IF text = "1" THEN 1 ELSE IF text = "7" THEN 7 ELSE 0

\* The texts a user sends in each FSM state.  In in_test every text, a
\* command included, reaches process_test_answer and is handled alike, so
\* one text stands for all of them.
TextsIn(st) ==
    IF st = "in_test" THEN {"/take_test"}
    ELSE IF st = "choosing_topic" THEN {"1", "7", "abc"}
    ELSE {"/take_test", "abc"}

\* --------------------------------------------------------- database ------
\* SELECT id, title FROM topics WHERE id=?
TopicExists(id) == id \in 1..Len(topics)

\* SELECT id FROM topics WHERE title=?
TopicIdOf(title) == CHOOSE i \in 1..Len(topics) : topics[i] = title

TestsOf(topic_id) == {i \in 1..Len(tests) : tests[i].topic_id = topic_id}

\* LatestTest with the order of created_at reversed (ASC)
LatestTest_Oldest(topic_id) ==
    IF TestsOf(topic_id) = {} THEN 0
    ELSE CHOOSE i \in TestsOf(topic_id) :
            \A j \in TestsOf(topic_id) : tests[i].created_at <= tests[j].created_at

\* SELECT id, questions_json FROM tests WHERE topic_id=?
\*     ORDER BY created_at DESC LIMIT 1      (0: no row)
LatestTest(topic_id) ==
    IF TestsOf(topic_id) = {} THEN 0
    ELSE CHOOSE i \in TestsOf(topic_id) :
            \A j \in TestsOf(topic_id) : tests[j].created_at <= tests[i].created_at

\* ------------------------------------------------------- dispatcher ------
\* Route with the state filter of process_test_answer left out
Route_NoStateFilter(st, text) ==
    IF st = "choosing_topic" THEN "process_topic_choice"
    ELSE IF text = "/take_test" /\ st = "none" THEN "cmd_take_test"
    ELSE "process_test_answer"

\* The handler whose filters match a text message of a user in FSM state st.
\* A handler registered without state= matches in the default state only.
Route(st, text) ==
    IF st = "in_test" THEN "process_test_answer"
    ELSE IF st = "choosing_topic" THEN "process_topic_choice"
    ELSE IF text = "/take_test" THEN "cmd_take_test"
    ELSE "unhandled"

Routed(name) ==
    /\ update # NoUpdate
    /\ running = Idle
    /\ Route(fsm[update.user], update.text) = name

\* An update of user u arrives from polling; the dispatcher routes it in
\* the next step.
Receive(u, text) ==
    /\ update = NoUpdate
    /\ running = Idle
    /\ text \in TextsIn(fsm[u])
    /\ received < MaxUpdates
    /\ update' = [user |-> u, text |-> text]
    /\ uncaught' = "none"
    /\ received' = received + 1
    /\ reply' = [reply EXCEPT ![u] = Msg("nothing")]
    /\ UNCHANGED <<topics, tests, progress, fsm, data, running, pending,
                   nextSid, accepted>>

\* No handler matches: the update is dropped.
Unhandled ==
    /\ Routed("unhandled")
    /\ update' = NoUpdate
    /\ UNCHANGED <<topics, tests, progress, fsm, data, running, pending,
                   reply, uncaught, nextSid, received, accepted>>

\* --------------------------------------------------------- teacher -------
\* What openai_generate_test does: the request raises, or a list of n
\* questions is returned (n = 0: the response did not parse or was empty).
TestResponses ==
    {[status |-> "api_error", n |-> 0]}
        \cup {[status |-> "list", n |-> n] : n \in {0, 1, MaxQuestions}}

\* /add_topic <title>
cmd_add_topic(title, gen) ==
    LET known    == \E i \in 1..Len(topics) : topics[i] = title
        topics1  == IF known THEN topics ELSE Append(topics, title)
        topic_id == IF known THEN TopicIdOf(title) ELSE Len(topics) + 1
    IN  /\ update = NoUpdate
        /\ running = Idle
        /\ Len(tests) < MaxTests
        /\ topics' = topics1
        /\ IF gen.status = "api_error"
           THEN /\ uncaught' = "generate_test"
                /\ UNCHANGED tests
           ELSE IF gen.n = 0
           THEN UNCHANGED <<tests, uncaught>>
           ELSE /\ tests' = Append(tests, [topic_id |-> topic_id,
                                           questions |-> GeneratedTest(gen.n),
                                           created_at |-> Len(tests) + 1])
                /\ UNCHANGED uncaught
        /\ UNCHANGED <<progress, fsm, data, update, running, pending, reply,
                       nextSid, received, accepted>>

\* ------------------------------------------------------- FSM storage -----
\* SetState that keeps one state for all users
SetState_Shared(u, st) == [v \in Users |-> st]

\* State.set(): the storage keeps the state under the chat and user of the
\* update being handled.
SetState(u, st) == [fsm EXCEPT ![u] = st]

\* --------------------------------------------------------- /take_test ----
\* The users of the model are registered students (full_name is set), so
\* the handler lists the topics.
cmd_take_test ==
    LET u == update.user
    IN  /\ Routed("cmd_take_test")
        /\ update' = NoUpdate
        /\ IF topics = <<>>
           THEN /\ reply' = [reply EXCEPT ![u] = Msg("no_topics")]
                /\ UNCHANGED pending
           ELSE /\ reply' = [reply EXCEPT ![u] = Msg("topics_list")]
                /\ pending' = Suspend(u, Cont("set_choosing", 0))
        /\ UNCHANGED <<topics, tests, progress, fsm, data, running,
                       uncaught, nextSid, received, accepted>>

\* await TestStates.choosing_topic.set(), after the list was sent
cmd_take_test_set_state(u) ==
    /\ update = NoUpdate
    /\ running = Idle
    /\ pending[u][Cont("set_choosing", 0)] > 0
    /\ pending' = Resumed(u, Cont("set_choosing", 0))
    /\ fsm' = SetState(u, "choosing_topic")
    /\ UNCHANGED <<topics, tests, progress, data, update, running, reply,
                   uncaught, nextSid, received, accepted>>

\* ------------------------------------------------------ topic choice -----
\* state.update_data(topic_id=, test_id=, questions=, current_index=0, answers=[])
NewSession(sid, topic_id, test_id, questions) ==
    [present |-> TRUE, sid |-> sid, topic_id |-> topic_id, test_id |-> test_id,
     questions |-> questions, current_index |-> 0, answers |-> <<>>]

Question(n, q) == [Msg("question") EXCEPT !.n = n, !.q = q]

process_topic_choice ==
    LET u        == update.user
        arg      == update.text
        topic_id == ToInt(arg)
        test_id  == LatestTest(topic_id)
    IN  /\ Routed("process_topic_choice")
        /\ update' = NoUpdate
        /\ IF ~IsDigit(arg)
           THEN /\ reply' = [reply EXCEPT ![u] = Msg("not_digit")]
                /\ UNCHANGED <<data, pending, nextSid, accepted>>
           ELSE IF ~TopicExists(topic_id)
           THEN /\ reply' = [reply EXCEPT ![u] = Msg("topic_not_found")]
                /\ UNCHANGED <<data, pending, nextSid, accepted>>
           ELSE IF test_id = 0
           THEN /\ reply' = [reply EXCEPT ![u] = Msg("no_test")]
                /\ pending' = Suspend(u, Cont("finish_notest", 0))
                /\ UNCHANGED <<data, nextSid, accepted>>
           ELSE /\ data' = [data EXCEPT ![u] =
                               NewSession(nextSid, topic_id, test_id,
                                          tests[test_id].questions)]
                /\ nextSid' = nextSid + 1
                /\ reply' = [reply EXCEPT ![u] =
                               Question(1, tests[test_id].questions[1].q)]
                /\ pending' = Suspend(u, Cont("set_in_test", 0))
                /\ accepted' = [accepted EXCEPT ![u] = NoneAccepted]
        /\ UNCHANGED <<topics, tests, progress, fsm, running, uncaught,
                       received>>

\* await TestStates.in_test.set(), after the first question was sent
process_topic_choice_set_state(u) ==
    /\ update = NoUpdate
    /\ running = Idle
    /\ pending[u][Cont("set_in_test", 0)] > 0
    /\ pending' = Resumed(u, Cont("set_in_test", 0))
    /\ fsm' = SetState(u, "in_test")
    /\ UNCHANGED <<topics, tests, progress, data, update, running, reply,
                   uncaught, nextSid, received, accepted>>

\* StateFinish that resets nothing
StateFinish_KeepsState(u) == UNCHANGED <<fsm, data>>

\* await state.finish(): the FSM state and the FSM data of the user are reset
StateFinish(u) ==
    /\ fsm' = [fsm EXCEPT ![u] = "none"]
    /\ data' = [data EXCEPT ![u] = NoData]

\* await state.finish(), after "no test for this topic" was sent
process_topic_choice_finish(u) ==
    /\ update = NoUpdate
    /\ running = Idle
    /\ pending[u][Cont("finish_notest", 0)] > 0
    /\ pending' = Resumed(u, Cont("finish_notest", 0))
    /\ StateFinish(u)
    /\ accepted' = [accepted EXCEPT ![u] = NoneAccepted]
    /\ UNCHANGED <<topics, tests, progress, update, running, reply,
                   uncaught, nextSid, received>>

\* ------------------------------------------------------ OpenAI wrappers --
JudgeResponses == {"api_error", "unparseable", "true", "false"}

\* openai_check_answer on a response of the service: the request itself
\* raises, or the text is parsed; any parsing error gives the fallback.
openai_check_answer(resp) ==
    IF resp = "api_error"
    THEN [raised |-> TRUE, is_correct |-> FALSE, comment |-> "-"]
    ELSE IF resp = "unparseable"
    THEN [raised |-> FALSE, is_correct |-> FALSE, comment |-> "fallback"]
    ELSE [raised |-> FALSE, is_correct |-> (resp = "true"), comment |-> "judge"]

\* Responses of the follow-up generator: the request raises, the text does
\* not parse, or it is a JSON list of n strings (fewer or more than asked).
GeneratorResponses ==
    {[status |-> "api_error", n |-> 0], [status |-> "unparseable", n |-> 0]}
        \cup {[status |-> "list", n |-> n] : n \in {2, NumFollowups + 1}}

Items(k) == [i \in 1..k |-> i]

\* openai_generate_followups that returns the whole list
openai_generate_followups_NoLimit(resp, num) ==
    IF resp.status = "api_error" THEN [raised |-> TRUE, extras |-> <<>>]
    ELSE IF resp.status = "unparseable" THEN [raised |-> FALSE, extras |-> <<>>]
    ELSE [raised |-> FALSE, extras |-> Items(resp.n)]

\* openai_generate_followups(question, student_answer, num)
openai_generate_followups(resp, num) ==
    IF resp.status = "api_error" THEN [raised |-> TRUE, extras |-> <<>>]
    ELSE IF resp.status = "unparseable" THEN [raised |-> FALSE, extras |-> <<>>]
    ELSE [raised |-> FALSE,
          extras |-> SubSeq(Items(resp.n), 1,
                            IF resp.n < num THEN resp.n ELSE num)]

\* ---------------------------------------------------- scoring, planning --
RECURSIVE CountCorrect(_)
CountCorrect(answers) ==
    IF answers = <<>> THEN 0
    ELSE (IF answers[1].is_correct THEN 1 ELSE 0) + CountCorrect(Tail(answers))

\* Score rounded to the nearest integer instead of truncated
Score_Rounded(correct, total) == (100 * correct + total \div 2) \div total

\* score = int(100 * correct / total)
Score(correct, total) == (100 * correct) \div total

\* AllCorrect that lets one wrong answer pass
AllCorrect_Lenient(correct, total) == correct >= total - 1

\* if correct == total
AllCorrect(correct, total) == correct = total

\* The position of the first wrong answer at or after from; 0 if none.
NextWrong(answers, from) ==
    IF \E i \in from..Len(answers) : ~answers[i].is_correct
    THEN CHOOSE i \in from..Len(answers) :
            /\ ~answers[i].is_correct
            /\ \A j \in from..(i - 1) : answers[j].is_correct
    ELSE 0

\* followups[qtext] = extras
PlanWith(plan, qtext, extras) ==
    [p \in (DOMAIN plan) \cup {qtext} |-> IF p = qtext THEN extras ELSE plan[p]]

AnswerRecord(q, student_answer, is_correct, comment) ==
    [q |-> q.q, correct_answer |-> q.a, student_answer |-> student_answer,
     is_correct |-> is_correct, comment |-> comment]

\* UpdateData that stores the answers and leaves the index
UpdateData_KeepsIndex(d, idx, answers) == [d EXCEPT !.answers = answers]

\* state.update_data(current_index=idx, answers=answers)
UpdateData(d, idx, answers) ==
    [d EXCEPT !.current_index = idx, !.answers = answers]

\* NextQuestion that sends the question just answered once more
NextQuestion_Repeats(questions, idx) == Question(idx, questions[idx].q)

\* message.answer(f"Question {idx+1}: {questions[idx]['q']}"), idx already
\* incremented; positions of a sequence count from 1.
NextQuestion(questions, idx) == Question(idx + 1, questions[idx + 1].q)

\* IsLast that ends the test one question early
IsLast_OneEarly(idx, questions) == idx + 1 >= Len(questions)

\* if idx >= len(questions)
IsLast(idx, questions) == idx >= Len(questions)

\* SessionQuestions that reads the latest test of the topic again
SessionQuestions_Reloaded(d) == tests[LatestTest(d.topic_id)].questions

\* questions = data['questions']: the list stored when the session started
SessionQuestions(d) == d.questions

\* ------------------------------------------------------- test answers ----
\* The handler up to the blocking request to the judge.  state.get_data()
\* gives the handler a copy of the stored data.
process_test_answer ==
    LET u == update.user
        d == data[u]
    IN  /\ Routed("process_test_answer")
        /\ update' = NoUpdate
        /\ IF ~d.present
           THEN /\ uncaught' = "KeyError"
                /\ UNCHANGED running
           ELSE IF d.current_index >= Len(SessionQuestions(d))
           THEN /\ uncaught' = "IndexError"
                /\ UNCHANGED running
           ELSE /\ running' = [Idle EXCEPT !.kind = "judge", !.user = u,
                                  !.sid = d.sid, !.topic_id = d.topic_id,
                                  !.test_id = d.test_id,
                                  !.questions = SessionQuestions(d),
                                  !.idx = d.current_index,
                                  !.answers = d.answers,
                                  !.student_answer = update.text]
                /\ UNCHANGED uncaught
        /\ UNCHANGED <<topics, tests, progress, fsm, data, pending, reply,
                       nextSid, received, accepted>>

\* The judge request ends with resp; the handler goes on to its next
\* blocking call or to its next message.
JudgeReturns(resp) ==
    LET u       == running.user
        r       == openai_check_answer(resp)
        q       == running.questions[running.idx + 1]
        answers == Append(running.answers,
                          AnswerRecord(q, running.student_answer,
                                       r.is_correct, r.comment))
        idx     == running.idx + 1
        total   == Len(answers)
        correct == CountCorrect(answers)
        score   == Score(correct, total)
    IN  /\ running.kind = "judge"
        /\ IF r.raised
           THEN /\ running' = Idle
                /\ uncaught' = "judge"
                /\ accepted' = [accepted EXCEPT ![u].ok = FALSE]
                /\ UNCHANGED <<data, reply>>
           ELSE IF IsLast(idx, running.questions)
           THEN /\ running' =
                      IF AllCorrect(correct, total)
                      THEN [running EXCEPT !.kind = "persist",
                               !.answers = answers, !.score = score]
                      ELSE [running EXCEPT !.kind = "followups",
                               !.answers = answers, !.score = score,
                               !.pos = NextWrong(answers, 1)]
                /\ accepted' = [accepted EXCEPT ![u].n = @ + 1]
                /\ UNCHANGED <<data, reply, uncaught>>
           ELSE /\ data' = [data EXCEPT ![u] = UpdateData(@, idx, answers)]
                /\ reply' = [reply EXCEPT ![u] =
                               NextQuestion(running.questions, idx)]
                /\ running' = Idle
                /\ accepted' = [accepted EXCEPT ![u].n = @ + 1]
                /\ UNCHANGED uncaught
        /\ UNCHANGED <<topics, tests, progress, fsm, update, pending,
                       nextSid, received>>

\* A follow-up request for the wrong answer at running.pos ends with resp.
GeneratorReturns(resp) ==
    LET a    == running.answers[running.pos]
        g    == openai_generate_followups(resp, NumFollowups)
        next == NextWrong(running.answers, running.pos + 1)
    IN  /\ running.kind = "followups"
        /\ IF g.raised
           THEN /\ running' = Idle
                /\ uncaught' = "generator"
                /\ accepted' = [accepted EXCEPT ![running.user].ok = FALSE]
           ELSE /\ running' = [running EXCEPT
                                  !.kind = IF next = 0 THEN "persist" ELSE "followups",
                                  !.pos = next,
                                  !.followups = PlanWith(@, a.q, g.extras),
                                  !.calls = @ + 1]
                /\ UNCHANGED <<uncaught, accepted>>
        /\ UNCHANGED <<topics, tests, progress, fsm, data, update, pending,
                       reply, nextSid, received>>

\* InsertProgress that keeps one row per user and topic (an upsert)
InsertProgress_Upsert(rows, row) ==
    IF \E i \in 1..Len(rows) :
          rows[i].user = row.user /\ rows[i].topic_id = row.topic_id
    THEN [i \in 1..Len(rows) |->
             IF rows[i].user = row.user /\ rows[i].topic_id = row.topic_id
             THEN row ELSE rows[i]]
    ELSE Append(rows, row)

\* INSERT INTO progress(user_id, topic_id, result_json, score, updated_at)
InsertProgress(rows, row) == Append(rows, row)

Summary(passed, score, plan, calls) ==
    [Msg(IF passed THEN "pass" ELSE "fail") EXCEPT
        !.score = score, !.plan = plan, !.calls = calls]

\* db_execute("INSERT INTO progress ..."): the row is committed (ok) or
\* sqlite raises.  Then the summary is sent.  The fields sid and test_id of
\* a row are history: the session that wrote it and the test it was bound to.
SaveProgress(ok) ==
    LET u      == running.user
        passed == AllCorrect(CountCorrect(running.answers), Len(running.answers))
    IN  /\ running.kind = "persist"
        /\ running' = Idle
        /\ IF ok
           THEN /\ progress' = InsertProgress(progress,
                                  [user |-> u, topic_id |-> running.topic_id,
                                   result |-> running.answers,
                                   score |-> running.score,
                                   sid |-> running.sid,
                                   test_id |-> running.test_id])
                /\ reply' = [reply EXCEPT ![u] =
                               Summary(passed, running.score,
                                       running.followups, running.calls)]
                /\ pending' = Suspend(u, Cont("finish_test", running.sid))
                /\ UNCHANGED <<uncaught, accepted>>
           ELSE /\ uncaught' = "store"
                /\ accepted' = [accepted EXCEPT ![u].ok = FALSE]
                /\ UNCHANGED <<progress, reply, pending>>
        /\ UNCHANGED <<topics, tests, fsm, data, update, nextSid, received>>

\* await state.finish(), after the summary was sent
process_test_answer_finish(u, sid) ==
    /\ update = NoUpdate
    /\ running = Idle
    /\ pending[u][Cont("finish_test", sid)] > 0
    /\ pending' = Resumed(u, Cont("finish_test", sid))
    /\ StateFinish(u)
    /\ accepted' = [accepted EXCEPT ![u] = NoneAccepted]
    /\ UNCHANGED <<topics, tests, progress, update, running, reply,
                   uncaught, nextSid, received>>

\* ----------------------------------------------------- specification ----
Next ==
    \/ \E u \in Users, text \in Texts : Receive(u, text)
    \/ Unhandled
    \/ \E title \in Titles, gen \in TestResponses :
           cmd_add_topic(title, gen)
    \/ cmd_take_test
    \/ \E u \in Users : cmd_take_test_set_state(u)
    \/ process_topic_choice
    \/ \E u \in Users : process_topic_choice_set_state(u)
    \/ \E u \in Users : process_topic_choice_finish(u)
    \/ process_test_answer
    \/ \E resp \in JudgeResponses : JudgeReturns(resp)
    \/ \E resp \in GeneratorResponses : GeneratorReturns(resp)
    \/ \E ok \in BOOLEAN : SaveProgress(ok)
    \/ \E u \in Users, sid \in 1..MaxUpdates : process_test_answer_finish(u, sid)

Spec == Init /\ [][Next]_vars

\* ------------------------------------------------------------ claims -----
RecordsOf(sid) == {i \in 1..Len(progress) : progress[i].sid = sid}

RecordsOfUser(u) == {i \in 1..Len(progress) : progress[i].user = u}

LastRecordOf(u) ==
    progress[CHOOSE i \in RecordsOfUser(u) : \A j \in RecordsOfUser(u) : j <= i]

Right(result) == {j \in 1..Len(result) : result[j].is_correct}

Wrong(result) == {j \in 1..Len(result) : ~result[j].is_correct}

IsSummary(m) == m.kind \in {"pass", "fail"}

\* C1: for every session in the store, 0 <= current_index <= len(questions)
\* and the number of stored answers equals current_index.
C1_IndexAndAnswers ==
    \A u \in Users :
        data[u].present =>
            /\ 0 <= data[u].current_index
            /\ data[u].current_index <= Len(data[u].questions)
            /\ Len(data[u].answers) = data[u].current_index

C1_Witness ==
    \E u \in Users : data[u].present /\ data[u].current_index = 2

\* C2: when a session is completed (state.finish() of the answer handler
\* runs), the session has produced exactly one row of progress.
C2_ExactlyOneRecord ==
    [][\A u \in Users, sid \in 1..MaxUpdates :
          (pending'[u][Cont("finish_test", sid)]
               = pending[u][Cont("finish_test", sid)] - 1)
              => Cardinality(RecordsOf(sid)) = 1]_vars

\* C3: the score persisted and the score reported at finalization are
\* floor(100 * c / n) for c correct answers of n >= 1, and lie in 0..100.
C3_ScoreIsFloor ==
    /\ \A i \in 1..Len(progress) :
          LET n == Len(progress[i].result)
              c == Cardinality(Right(progress[i].result))
              score == progress[i].score
          IN  /\ n >= 1
              /\ score \in 0..100
              /\ score * n <= 100 * c
              /\ 100 * c < (score + 1) * n
    /\ \A u \in Users :
          IsSummary(reply[u]) =>
              /\ RecordsOfUser(u) # {}
              /\ reply[u].score = LastRecordOf(u).score

C3_Witness ==
    \E i \in 1..Len(progress) :
        /\ Len(progress[i].result) = 3
        /\ Cardinality(Right(progress[i].result)) = 2
        /\ progress[i].score = 66
        /\ reply[progress[i].user].score = 66

\* C4: whatever the judge request ends with, the handler records an answer
\* and goes on (next question, or finalization), and no exception leaves it;
\* an answer with the fallback comment is recorded as incorrect.
C4_JudgeFailureDegrades ==
    [][(running.kind = "judge" /\ running' # running) =>
          LET u == running.user
          IN  /\ uncaught' = uncaught
              /\ \/ /\ running' = Idle
                    /\ data'[u].current_index = running.idx + 1
                    /\ Len(data'[u].answers) = running.idx + 1
                    /\ reply'[u].kind = "question"
                 \/ /\ running'.kind \in {"followups", "persist"}
                    /\ Len(running'.answers) = running.idx + 1
                    /\ running.idx + 1 = Len(running.questions)
    ]_vars

\* C5: whatever a follow-up request ends with, the wrong question gets an
\* entry in the plan, no exception leaves the handler and finalization goes
\* on (next request, or the row of progress).
C5_GeneratorFailureDegrades ==
    [][(running.kind = "followups" /\ running' # running) =>
          /\ uncaught' = uncaught
          /\ running'.kind \in {"followups", "persist"}
          /\ running.answers[running.pos].q \in DOMAIN running'.followups
    ]_vars

\* C6: an update routed while its user is not in in_test invokes no judge
\* and appends no row of progress; a text that is no command, routed in the
\* default state (idle, or after completion), changes nothing at all.
C6_RejectedOutsideInTest ==
    [][\A u \in Users :
          (update.user = u /\ update' = NoUpdate /\ fsm[u] # "in_test") =>
              /\ running' = running
              /\ progress' = progress
              /\ (fsm[u] = "none" /\ update.text # "/take_test") =>
                    UNCHANGED <<fsm, data, pending, reply, uncaught,
                                progress, running, nextSid, topics, tests>>
    ]_vars

C6_Witness ==
    \E u \in Users :
        /\ update = [user |-> u, text |-> "abc"]
        /\ fsm[u] = "none"
        /\ RecordsOfUser(u) # {}

\* The steps of process_topic_choice for a topic id that is unknown or has
\* no test: the handler up to its message, and its state.finish().
NotFoundDispatch(u) ==
    /\ update.user = u
    /\ update' = NoUpdate
    /\ fsm[u] = "choosing_topic"
    /\ IsDigit(update.text)
    /\ ~TopicExists(ToInt(update.text)) \/ LatestTest(ToInt(update.text)) = 0

NotFoundFinish(u) ==
    pending'[u][Cont("finish_notest", 0)] = pending[u][Cont("finish_notest", 0)] - 1

C8_OneEntryPerWrongAnswer ==
    \A u \in Users :
        (reply[u].kind = "fail" /\ RecordsOfUser(u) # {}) =>
            LET w == Cardinality(Wrong(LastRecordOf(u).result))
            IN  /\ reply[u].calls = w
                /\ Cardinality(DOMAIN reply[u].plan) = w

\* C9: a summary carries a plan iff its score is below 100; when all
\* answers are correct the score is 100, the pass message is sent, the plan
\* is empty and no follow-up request was made.
C9_PlanIffBelow100 ==
    \A u \in Users :
        (IsSummary(reply[u]) /\ RecordsOfUser(u) # {}) =>
            LET m == reply[u]
                result == LastRecordOf(u).result
            IN  /\ (m.kind = "fail") <=> (m.score < 100)
                /\ (m.kind = "fail") <=> (DOMAIN m.plan # {})
                /\ (m.kind = "pass") <=> (Wrong(result) = {})
                /\ (m.kind = "pass") =>
                      (m.score = 100 /\ m.plan = EmptyPlan /\ m.calls = 0)

C9_Witness ==
    \E u, v \in Users :
        /\ reply[u].kind = "pass"
        /\ reply[v].kind = "fail"
        /\ reply[v].calls > 0

\* C10: when the insert into progress ends, the row is stored and the
\* summary sent, or the failure is reported to the user and the insert is
\* tried again; no exception leaves the handler.
C10_PersistenceFailureHandled ==
    [][(running.kind = "persist" /\ running' # running) =>
          LET u == running.user
          IN  /\ uncaught' = uncaught
              /\ \/ /\ Len(progress') = Len(progress) + 1
                    /\ IsSummary(reply'[u])
                 \/ /\ reply'[u].kind = "save_failed"
                    /\ running'.kind = "persist"
    ]_vars

\* C11: answers of one session are processed one at a time: no session is
\* finalized twice (two rows of progress for one session), and no answer is
\* judged for a session that already has its row of progress.
C11_OneAnswerAtATime ==
    /\ \A sid \in 1..MaxUpdates : Cardinality(RecordsOf(sid)) <= 1
    /\ running.kind = "judge" => RecordsOf(running.sid) = {}

\* C12: while a request of one user to the judge or to the follow-up
\* generator is pending, a message of any other user can still be received
\* and handled.
C12_OthersNotStalled ==
    \A u, v \in Users :
        (/\ u # v
         /\ running.user = u
         /\ running.kind \in {"judge", "followups"}
         /\ received < MaxUpdates)
            => \E text \in TextsIn(fsm[v]) : ENABLED Receive(v, text)

\* C13: the step that starts a session binds it to a test of the chosen
\* topic that no test of that topic, among those stored at that moment,
\* exceeds in created_at, and to the questions of that test.
C13_LatestDefinition ==
    [][\A u \in Users :
          (update.user = u /\ nextSid' = nextSid + 1) =>
              LET d == data'[u]
              IN  /\ d.present
                  /\ d.topic_id = ToInt(update.text)
                  /\ d.test_id \in TestsOf(d.topic_id)
                  /\ \A j \in TestsOf(d.topic_id) :
                        tests[j].created_at <= tests[d.test_id].created_at
                  /\ d.questions = tests[d.test_id].questions
    ]_vars

C13_Witness ==
    \E u \in Users :
        /\ data[u].present
        /\ Cardinality(TestsOf(data[u].topic_id)) = 2
        /\ data[u].test_id = 2
        /\ tests[1].questions # tests[2].questions

\* C14: the rows of progress are only ever appended to: every step keeps
\* each stored row as it is, and every completion (the summary is sent) adds
\* one row, for its user, behind the rows stored before; a retake of a topic
\* leaves the row of the earlier attempt in place.
C14_AppendOnly ==
    [][/\ Len(progress') >= Len(progress)
       /\ \A i \in 1..Len(progress) : progress'[i] = progress[i]
       /\ (running.kind = "persist" /\ IsSummary(reply'[running.user])) =>
             /\ Len(progress') = Len(progress) + 1
             /\ progress'[Len(progress')].user = running.user
             /\ progress'[Len(progress')].sid = running.sid
    ]_vars

C14_Witness ==
    \E i, j \in 1..Len(progress) :
        /\ i < j
        /\ progress[i].user = progress[j].user
        /\ progress[i].topic_id = progress[j].topic_id
        /\ progress[i].sid # progress[j].sid

\* C15: every row of progress holds one answer record per question of the
\* test its session was bound to, in the order of the questions, each with
\* the prompt and the reference answer of the question at its position, and
\* its score is floor(100 * correct / total) over these records.
C15_RecordComplete ==
    \A i \in 1..Len(progress) :
        LET r  == progress[i]
            qs == tests[r.test_id].questions
        IN  /\ r.test_id \in TestsOf(r.topic_id)
            /\ Len(r.result) = Len(qs)
            /\ \A k \in 1..Len(qs) :
                  /\ r.result[k].q = qs[k].q
                  /\ r.result[k].correct_answer = qs[k].a
            /\ r.score = (100 * Cardinality(Right(r.result))) \div Len(qs)

C15_Witness ==
    \E i \in 1..Len(progress) :
        /\ Len(progress[i].result) = MaxQuestions
        /\ Wrong(progress[i].result) # {}
        /\ Right(progress[i].result) # {}
        /\ Cardinality(TestsOf(progress[i].topic_id)) = 2

\* C16: a question is sent only as the question at the stored index of the
\* user's session: question 1 by the step that creates the session, question
\* k+1 by the step that appends the answer record of question k and moves the
\* index from k-1 to k.  Within a session the index never decreases and moves
\* by one at a time, each move sending the next question.
C16_QuestionsInOrder ==
    [][\A u \in Users :
          /\ (reply'[u].kind = "question" /\ reply'[u] # reply[u]) =>
                LET d == data'[u]
                    n == reply'[u].n
                IN  /\ d.present
                    /\ n = d.current_index + 1
                    /\ n <= Len(d.questions)
                    /\ reply'[u].q = d.questions[n].q
                    /\ Len(d.answers) = n - 1
                    /\ IF n = 1
                       THEN d.sid = nextSid /\ nextSid' = nextSid + 1
                       ELSE /\ data[u].present
                            /\ d.sid = data[u].sid
                            /\ data[u].current_index = n - 2
                            /\ d.answers[n - 1].q = d.questions[n - 1].q
          /\ (data[u].present /\ data'[u].present
                  /\ data'[u].sid = data[u].sid
                  /\ data'[u] # data[u]) =>
                /\ data'[u].current_index = data[u].current_index + 1
                /\ reply'[u].kind = "question"
                /\ reply'[u].n = data'[u].current_index + 1
    ]_vars

C16_Witness ==
    \E u \in Users :
        /\ reply[u].kind = "question"
        /\ reply[u].n = MaxQuestions
        /\ data[u].current_index = MaxQuestions - 1

\* A step of a handler of user u: its update is routed, its blocking call
\* returns, or one of its suspended handlers resumes.
StepOf(u) ==
    \/ update.user = u /\ update' = NoUpdate
    \/ running.user = u /\ running' # running
    \/ \E c \in Conts : pending'[u][c] < pending[u][c]

\* C17: a step of a handler of one user leaves the FSM state and the FSM
\* data (index, answers, questions) of every other user as they were; a step
\* of no user's handler leaves them all.
C17_SessionsIndependent ==
    [][/\ \A u, v \in Users :
             (u # v /\ StepOf(u)) => (fsm'[v] = fsm[v] /\ data'[v] = data[v])
       /\ (\A u \in Users : ~StepOf(u)) => UNCHANGED <<fsm, data>>
    ]_vars

C17_Witness ==
    \E u, v \in Users :
        /\ u # v
        /\ fsm[u] = "in_test" /\ fsm[v] = "in_test"
        /\ data[u].present /\ data[v].present
        /\ data[u].current_index = 1
        /\ data[v].current_index = 0

\* C18: a /take_test routed while its user has a session in progress is
\* handled as a start: no answer is judged, the user gets the list of topics,
\* and the session in progress gets no answer record and no row of progress
\* from it.
C18_StartReplacesSession ==
    [][\A u \in Users :
          (/\ update = [user |-> u, text |-> "/take_test"]
           /\ update' = NoUpdate
           /\ data[u].present) =>
              /\ running' = Idle
              /\ reply'[u].kind \in {"topics_list", "no_topics"}
              /\ RecordsOf(data[u].sid) = {} => progress' = progress
    ]_vars

\* A list of follow-ups of at most NumFollowups items, being the first items
\* of the generator's list in the generator's order.
FirstItems(e) ==
    /\ Len(e) <= NumFollowups
    /\ \A i \in 1..Len(e) : e[i] = Items(NumFollowups + 1)[i]

\* C19: every entry of a plan, while the plan is built and in the summary
\* sent, holds at most 5 follow-ups, in the order the generator gave them.
C19_AtMostFiveFollowups ==
    /\ \A p \in DOMAIN running.followups : FirstItems(running.followups[p])
    /\ \A u \in Users :
          \A p \in DOMAIN reply[u].plan : FirstItems(reply[u].plan[p])

C19_Witness ==
    \E u \in Users :
        /\ reply[u].kind = "fail"
        /\ \E p, q \in DOMAIN reply[u].plan :
              /\ Len(reply[u].plan[p]) = NumFollowups
              /\ Len(reply[u].plan[q]) = 2

\* C20: when the handler of the last answer completes the stored session
\* (its state.finish() runs) and every request made for the session
\* returned, exactly as many answers as the test has questions were recorded
\* for that session, and the step leaves the user in the default state with
\* no session data.
C20_CompletesAfterNAnswers ==
    [][\A u \in Users, sid \in 1..MaxUpdates :
          (/\ pending'[u][Cont("finish_test", sid)]
                  < pending[u][Cont("finish_test", sid)]
           /\ data[u].present
           /\ data[u].sid = sid
           /\ accepted[u].ok) =>
              /\ accepted[u].n = Len(data[u].questions)
              /\ fsm'[u] = "none"
              /\ data'[u] = NoData
    ]_vars

\* C21: a user in in_test has a stored session whose questions are not
\* empty and whose index is below their number, so the handler of an answer
\* can resolve the current question; no stored test has an empty list of
\* questions.
C21_CurrentQuestionExists ==
    /\ \A i \in 1..Len(tests) : Len(tests[i].questions) >= 1
    /\ \A u \in Users :
          fsm[u] = "in_test" =>
              /\ data[u].present
              /\ Len(data[u].questions) >= 1
              /\ data[u].current_index < Len(data[u].questions)

\* C22: while a session is stored, every step, a new test for its topic
\* included, leaves its questions and its test as they are, and they are the
\* questions of the test it was bound to at the start; the handler of an
\* answer asks and judges with exactly these questions and reference
\* answers, and counts them for the score.
C22_QuestionsFixedAtStart ==
    [][\A u \in Users :
          /\ (data[u].present /\ data'[u].present
                  /\ data'[u].sid = data[u].sid) =>
                /\ data'[u].questions = data[u].questions
                /\ data'[u].test_id = data[u].test_id
                /\ data'[u].questions = tests'[data[u].test_id].questions
          /\ (running'.kind # "idle" /\ running'.user = u) =>
                /\ running'.questions = tests'[running'.test_id].questions
                /\ running.kind = "idle" =>
                      (running'.test_id = data[u].test_id
                          /\ running'.questions = data[u].questions)
                /\ Len(running'.answers) <= Len(running'.questions)
                /\ \A k \in 1..Len(running'.answers) :
                      /\ running'.answers[k].q = running'.questions[k].q
                      /\ running'.answers[k].correct_answer
                             = running'.questions[k].a
    ]_vars

C22_Witness ==
    \E u \in Users :
        /\ data[u].present
        /\ data[u].current_index >= 1
        /\ data[u].test_id = 1
        /\ Len(tests) = 2
        /\ tests[2].topic_id = data[u].topic_id
        /\ tests[2].questions # data[u].questions

====
